---------------------------- MODULE Spec2Model ----------------------------
(***************************************************************************)
(* Model of gialme/list_scheduling: the three scheduling phases of         *)
(* src/list_scheduling/schedulers.py (asap_scheduling, alap_scheduling,    *)
(* priority_scheduling) and priority_function of                           *)
(* src/list_scheduling/utils.py.                                           *)
(*                                                                         *)
(* Python lists are modelled as sequences: the element with Python index k *)
(* is the element k + 1 of the sequence.  Operation indices (index1,       *)
(* index2, slot contents) keep their Python values: -1 or 0 .. N - 1.      *)
(***************************************************************************)
EXTENDS Integers, Sequences, FiniteSets, TLC

VARIABLES
    array_operations,   \* the list of ScheduleOperation records
    n_adder,            \* number of adders (args.nadd)
    n_mult,             \* number of multipliers (args.nmult)
    asap_schedule,      \* argument / result vector of the ASAP phase
    alap_schedule,      \* argument / result vector of the ALAP phase
    pc,                 \* position of the running function
    clk,                \* loop variable clk of the running function
    done,               \* local 'done' of asap_scheduling / alap_scheduling
    temp,               \* local 'temp' of the running function
    ready,              \* local 'ready' of priority_scheduling
    scheduling,         \* local 'scheduling' of priority_scheduling
    add,                \* local 'add' of priority_scheduling
    mult,               \* local 'mult' of priority_scheduling
    priority,           \* local 'priority' of priority_scheduling / result of priority_function
    num_op,             \* local 'num_op' of the running function
    file_lines,         \* the lines of the file at args.file, each split at its spaces
    args,               \* the namespace returned by setup_parser
    error,              \* the exception that ended the run, NoError while none was raised
    duplicate_name,     \* local 'duplicate_name' of main / result of check_same_name
    result,             \* the value returned by main
    first_asap          \* the vector a caller keeps from its first asap_scheduling call

vars == <<array_operations, n_adder, n_mult, asap_schedule, alap_schedule, pc,
          clk, done, temp, ready, scheduling, add, mult, priority, num_op,
          file_lines, args, error, duplicate_name, result, first_asap>>

-----------------------------------------------------------------------------
(* Bounds of the explored inputs. *)

\* largest number of operations in an input of the ASAP and ALAP phases
MaxOps == 3

\* largest number of operations in an input of priority_scheduling
MaxListOps == 2


\* largest number of operations in an input that may hold dependency cycles
MaxAnyOps == 2

\* largest capacity of a resource class
MaxCap == 2

\* largest length of the vectors handed to priority_function on its own
MaxVecLen == 2

\* largest entry of the vectors handed to priority_function on its own
MaxVecVal == 2

\* largest number of lines of a file handed to process_file on its own
MaxFileLines == 2

\* largest number of tokens of a line of such a file
MaxTokens == 6

\* largest number of objects in a list handed to check_same_name on its own
MaxNames == 4

-----------------------------------------------------------------------------
(* Python helpers. *)

\* v[k] for a Python list v and a Python index k >= 0
Get(v, k) == v[k + 1]

\* [x] * n
Repeat(x, n) == [i \in 1..n |-> x]

\* max(v) of a non-empty list
MaxOf(v) == CHOOSE m \in {v[i] : i \in 1..Len(v)} : \A i \in 1..Len(v) : v[i] <= m

\* v.index(x): the lowest Python index holding x
IndexOf(v, x) == (CHOOSE p \in 1..Len(v) : v[p] = x /\ \A q \in 1..(p - 1) : v[q] # x) - 1

\* an exception: its class, the fixed part of its message, and the line
\* number and the operation name the message carries (0 and "" when it
\* carries none)
Raised(exc, what, line, name) == [exc |-> exc, what |-> what, line |-> line, name |-> name]

\* no exception was raised
NoError == Raised("", "", 0, "")

\* the value of a call of main: none while main has not returned, then the
\* kind of the returned object ("None" or "list") and, for a list, its items
Returned(kind, value) == [kind |-> kind, value |-> value]

NotReturned == Returned("", <<>>)

\* the state of the variables of main and of its callers in a run that calls
\* one of the scheduling functions directly
NoMain ==
    /\ file_lines = <<>>
    /\ args = [nmult |-> 0, nadd |-> 0]
    /\ error = NoError
    /\ duplicate_name = <<>>
    /\ result = NotReturned
    /\ first_asap = <<>>

-----------------------------------------------------------------------------
(* Operation records (operation.py).  Only the fields the schedulers read  *)
(* are kept: type_op, index1, index2.                                      *)

TypeOps == {"+", "*"}

OpRecords(n, types) == [type_op : types, index1 : {-1} \cup 0..(n - 1), index2 : {-1} \cup 0..(n - 1)]

\* the internal dependencies of the operation with Python index i
Deps(ops, i) == {Get(ops, i).index1, Get(ops, i).index2} \ {-1}

\* the operations that can be ordered so that each follows its dependencies
RECURSIVE Resolvable(_, _)
Resolvable(ops, S) ==
    LET more == {i \in 0..(Len(ops) - 1) : Deps(ops, i) \subseteq S}
    IN  IF more = S THEN S ELSE Resolvable(ops, more)

Acyclic(ops) == Resolvable(ops, {}) = 0..(Len(ops) - 1)

\* the acyclic operation sequences of n operations with types drawn from 'types'
AcyclicOps(n, types) == {ops \in [1..n -> OpRecords(n, types)] : Acyclic(ops)}

-----------------------------------------------------------------------------
(* asap_scheduling, schedulers.py lines 52-99. *)


\* AsapSchedulable that does not wait for the first operand
AsapSchedulableSecondOnly(ops, d, i) ==
    LET index2 == Get(ops, i).index2
    IN  index2 = -1 \/ Get(d, index2) # -1

\* AsapSchedulable with the check of the second operand forgotten once the
\* first operand is available
AsapSchedulableFirstOnly(ops, d, i) ==
    LET index1 == Get(ops, i).index1
        index2 == Get(ops, i).index2
    IN  \/ index1 = -1 /\ index2 = -1
        \/ index1 # -1 /\ Get(d, index1) # -1
        \/ index1 = -1 /\ index2 # -1 /\ Get(d, index2) # -1

\* lines 64-89: whether operation i is assigned in this pass
AsapSchedulable(ops, d, i) ==
    LET index1 == Get(ops, i).index1
        index2 == Get(ops, i).index2
    IN  \/ index1 = -1 /\ index2 = -1
        \/ /\ index1 # -1
           /\ Get(d, index1) # -1
           /\ \/ index2 # -1 /\ Get(d, index2) # -1
              \/ index2 = -1
        \/ index1 = -1 /\ index2 # -1 /\ Get(d, index2) # -1

\* AsapPassTemp with availability read from the vector being written (temp)
\* instead of done: an operation is assigned in the pass of its dependency
AsapPassTempSamePass(ops, d, t, c) ==
    LET t1 == [p \in 1..Len(ops) |->
                  IF d[p] # -1 THEN t[p]
                  ELSE IF AsapSchedulable(ops, d, p - 1) THEN c ELSE t[p]]
    IN  [p \in 1..Len(ops) |->
            IF d[p] # -1 THEN t[p]
            ELSE IF AsapSchedulable(ops, t1, p - 1) THEN c ELSE t[p]]

\* lines 59-89: the value of temp after the inner loop of pass c
AsapPassTemp(ops, d, t, c) ==
    [p \in 1..Len(ops) |->
        IF d[p] # -1 THEN t[p]
        ELSE IF AsapSchedulable(ops, d, p - 1) THEN c ELSE t[p]]

\* AsapStart with a cycle counter that outlives the call (clk continues from
\* the value the previous call left instead of restarting at 1)
AsapStartCounterKept ==
    /\ pc = "asap_start"
    /\ num_op' = Len(array_operations)
    /\ done' = Repeat(-1, Len(array_operations))
    /\ temp' = Repeat(-1, Len(array_operations))
    /\ clk' = clk + 1
    /\ pc' = "asap_loop"
    /\ UNCHANGED <<file_lines, args, error, duplicate_name, result, first_asap,
                   array_operations, n_adder, n_mult, asap_schedule, alap_schedule,
                   ready, scheduling, add, mult, priority>>

\* lines 52-56
AsapStart ==
    /\ pc = "asap_start"
    /\ num_op' = Len(array_operations)
    /\ done' = Repeat(-1, Len(array_operations))
    /\ temp' = Repeat(-1, Len(array_operations))
    /\ clk' = 1
    /\ pc' = "asap_loop"
    /\ UNCHANGED <<file_lines, args, error, duplicate_name, result, first_asap,
                   array_operations, n_adder, n_mult, asap_schedule, alap_schedule,
                   ready, scheduling, add, mult, priority>>


\* AsapPass without the test 'done == temp': the loop always runs its
\* num_op passes
AsapPassNoBreak ==
    /\ pc = "asap_loop"
    /\ clk <= num_op
    /\ LET t == AsapPassTemp(array_operations, done, temp, clk)
       IN  /\ temp' = t
           /\ done' = t
           /\ clk' = clk + 1
           /\ pc' = "asap_loop"
    /\ UNCHANGED <<file_lines, args, error, duplicate_name, result, first_asap,
                   array_operations, n_adder, n_mult, asap_schedule, alap_schedule,
                   ready, scheduling, add, mult, priority, num_op>>

\* lines 58-97: one pass of the relaxation
AsapPass ==
    /\ pc = "asap_loop"
    /\ clk <= num_op
    /\ LET t == AsapPassTemp(array_operations, done, temp, clk)
       IN  /\ temp' = t
           /\ IF done = t
              THEN /\ clk' = clk - 1
                   /\ pc' = "asap_break"
                   /\ done' = done
              ELSE /\ done' = t
                   /\ clk' = clk + 1
                   /\ pc' = "asap_loop"
    /\ UNCHANGED <<file_lines, args, error, duplicate_name, result, first_asap,
                   array_operations, n_adder, n_mult, asap_schedule, alap_schedule,
                   ready, scheduling, add, mult, priority, num_op>>

\* line 99: return done, after the break or after the last pass
AsapReturn ==
    /\ \/ pc = "asap_break"
       \/ pc = "asap_loop" /\ clk > num_op
    /\ asap_schedule' = done
    /\ pc' = "alap_start"
    /\ UNCHANGED <<file_lines, args, error, duplicate_name, result, first_asap,
                   array_operations, n_adder, n_mult, alap_schedule, clk, done, temp,
                   ready, scheduling, add, mult, priority, num_op>>

-----------------------------------------------------------------------------
(* alap_scheduling, schedulers.py lines 124-154. *)


\* AlapPush that propagates to the second operand only
AlapPushSecondOnly(ops, t, c, i) ==
    LET index2 == Get(ops, i).index2
    IN  IF index2 # -1 THEN [t EXCEPT ![index2 + 1] = c] ELSE t


\* AlapPush that places the operands in the cycle of their consumer
\* (clk + 1 for clk)
AlapPushCycleAfter(ops, t, c, i) ==
    LET index1 == Get(ops, i).index1
        index2 == Get(ops, i).index2
        t1 == IF index1 # -1 THEN [t EXCEPT ![index1 + 1] = c + 1] ELSE t
    IN  IF index2 # -1 THEN [t1 EXCEPT ![index2 + 1] = c + 1] ELSE t1

\* AlapPush that propagates to the first operand only
AlapPushFirstOnly(ops, t, c, i) ==
    LET index1 == Get(ops, i).index1
    IN  IF index1 # -1 THEN [t EXCEPT ![index1 + 1] = c] ELSE t

\* AlapPush that keeps a cycle already written (the first write wins)
AlapPushKeepFirst(ops, t, c, i) ==
    LET index1 == Get(ops, i).index1
        index2 == Get(ops, i).index2
        t1 == IF index1 # -1 /\ t[index1 + 1] = -1 THEN [t EXCEPT ![index1 + 1] = c] ELSE t
    IN  IF index2 # -1 /\ t1[index2 + 1] = -1 THEN [t1 EXCEPT ![index2 + 1] = c] ELSE t1

\* AlapPush that places the operands two cycles before their consumer
\* (clk - 1 for clk)
AlapPushCycleBefore(ops, t, c, i) ==
    LET index1 == Get(ops, i).index1
        index2 == Get(ops, i).index2
        t1 == IF index1 # -1 THEN [t EXCEPT ![index1 + 1] = c - 1] ELSE t
    IN  IF index2 # -1 THEN [t1 EXCEPT ![index2 + 1] = c - 1] ELSE t1

\* lines 147-150: temp after the writes for one operation whose done is clk + 1
AlapPush(ops, t, c, i) ==
    LET index1 == Get(ops, i).index1
        index2 == Get(ops, i).index2
        t1 == IF index1 # -1 THEN [t EXCEPT ![index1 + 1] = c] ELSE t
    IN  IF index2 # -1 THEN [t1 EXCEPT ![index2 + 1] = c] ELSE t1

\* lines 140-150: temp after the inner loop has visited the operations i, i+1, ...
RECURSIVE AlapScan(_, _, _, _, _)
AlapScan(ops, d, t, c, i) ==
    IF i >= Len(ops) THEN t
    ELSE IF Get(d, i) = c + 1
         THEN AlapScan(ops, d, AlapPush(ops, t, c, i), c, i + 1)
         ELSE AlapScan(ops, d, t, c, i + 1)


\* AlapAnchor that takes the last operation holding the largest ASAP cycle
AlapAnchorLast(asap) ==
    CHOOSE k \in 0..(Len(asap) - 1) :
        /\ Get(asap, k) = MaxOf(asap)
        /\ \A l \in (k + 1)..(Len(asap) - 1) : Get(asap, l) # MaxOf(asap)

\* lines 129-134: the anchor, the first operation holding the largest ASAP cycle
AlapAnchor(asap) == IndexOf(asap, MaxOf(asap))

\* lines 124-136; max() of an empty list raises ValueError
AlapStart ==
    /\ pc = "alap_start"
    /\ num_op' = Len(array_operations)
    /\ IF Len(asap_schedule) = 0
       THEN /\ pc' = "alap_error"
            /\ error' = Raised("ValueError", "max() arg is an empty sequence", 0, "")
            /\ done' = Repeat(-1, Len(array_operations))
            /\ UNCHANGED <<temp, clk>>
       ELSE LET clk_max == MaxOf(asap_schedule)
                pos == AlapAnchor(asap_schedule)
                d == [Repeat(-1, Len(array_operations)) EXCEPT ![pos + 1] = clk_max]
            IN  /\ done' = d
                /\ temp' = d
                /\ clk' = clk_max - 1
                /\ pc' = "alap_loop"
                /\ error' = error
    /\ UNCHANGED <<file_lines, args, duplicate_name, result, first_asap,
                   array_operations, n_adder, n_mult, asap_schedule, alap_schedule,
                   ready, scheduling, add, mult, priority>>

\* lines 139-152: one level of the backward sweep
AlapLevel ==
    /\ pc = "alap_loop"
    /\ clk >= 1
    /\ temp' = AlapScan(array_operations, done, temp, clk, 0)
    /\ done' = temp'
    /\ clk' = clk - 1
    /\ UNCHANGED <<file_lines, args, error, duplicate_name, result, first_asap,
                   array_operations, n_adder, n_mult, asap_schedule, alap_schedule, pc,
                   ready, scheduling, add, mult, priority, num_op>>

\* line 154: return done
AlapReturn ==
    /\ pc = "alap_loop"
    /\ clk < 1
    /\ alap_schedule' = done
    /\ pc' = "alap_done"
    /\ UNCHANGED <<file_lines, args, error, duplicate_name, result, first_asap,
                   array_operations, n_adder, n_mult, asap_schedule, clk, done, temp,
                   ready, scheduling, add, mult, priority, num_op>>

-----------------------------------------------------------------------------
(* The ASAP phase followed by the ALAP phase on its result, for every      *)
(* acyclic operation sequence of at most MaxOps operations.  Neither phase *)
(* reads type_op, so every operation is an addition here.                  *)

InitAsapAlap ==
    /\ NoMain
    /\ array_operations \in UNION {AcyclicOps(n, {"+"}) : n \in 0..MaxOps}
    /\ n_adder = 1
    /\ n_mult = 1
    /\ asap_schedule = <<>>
    /\ alap_schedule = <<>>
    /\ pc = "asap_start"
    /\ clk = 0
    /\ done = <<>>
    /\ temp = <<>>
    /\ ready = <<>>
    /\ scheduling = <<>>
    /\ add = <<>>
    /\ mult = <<>>
    /\ priority = <<>>
    /\ num_op = 0

NextAsapAlap ==
    \/ AsapStart
    \/ AsapPass
    \/ AsapReturn
    \/ AlapStart
    \/ AlapLevel
    \/ AlapReturn

SpecAsapAlap == InitAsapAlap /\ [][NextAsapAlap]_vars

\* asap_scheduling as a function of the operation sequence: lines 58-99
RECURSIVE AsapLoop(_, _, _, _)
AsapLoop(ops, d, t, c) ==
    IF c > Len(ops) THEN d
    ELSE LET t2 == AsapPassTemp(ops, d, t, c)
         IN  IF d = t2 THEN d ELSE AsapLoop(ops, t2, t2, c + 1)

asap_scheduling(ops) == AsapLoop(ops, Repeat(-1, Len(ops)), Repeat(-1, Len(ops)), 1)


-----------------------------------------------------------------------------
(* The ASAP phase followed by the ALAP phase for every operation sequence  *)
(* of at most MaxAnyOps operations whose operand indices are -1 or the     *)
(* index of an operation of the sequence: self-references and dependency   *)
(* cycles are included.                                                    *)

AnyOps(n) == [1..n -> OpRecords(n, {"+"})]

InitAnyInput ==
    /\ NoMain
    /\ array_operations \in UNION {AnyOps(n) : n \in 0..MaxAnyOps}
    /\ n_adder = 1
    /\ n_mult = 1
    /\ asap_schedule = <<>>
    /\ alap_schedule = <<>>
    /\ pc = "asap_start"
    /\ clk = 0
    /\ done = <<>>
    /\ temp = <<>>
    /\ ready = <<>>
    /\ scheduling = <<>>
    /\ add = <<>>
    /\ mult = <<>>
    /\ priority = <<>>
    /\ num_op = 0

SpecAnyInput == InitAnyInput /\ [][NextAsapAlap]_vars

\* the functions are sequential code: a step that can be taken is taken
SpecAnyInputFair == SpecAnyInput /\ WF_vars(NextAsapAlap)

-----------------------------------------------------------------------------
(* asap_scheduling called twice by one caller on the same list object, for *)
(* every acyclic operation sequence of at most MaxListOps operations of     *)
(* both types.                                                              *)

\* the caller keeps the vector of the first call and calls again
AsapAgain ==
    /\ pc = "alap_start"
    /\ first_asap = <<>>
    /\ first_asap' = <<asap_schedule>>
    /\ pc' = "asap_start"
    /\ UNCHANGED <<file_lines, args, error, duplicate_name, result,
                   array_operations, n_adder, n_mult, asap_schedule, alap_schedule, clk,
                   done, temp, ready, scheduling, add, mult, priority, num_op>>

InitAsapTwice ==
    /\ NoMain
    /\ array_operations \in UNION {AcyclicOps(n, TypeOps) : n \in 0..MaxListOps}
    /\ n_adder = 1
    /\ n_mult = 1
    /\ asap_schedule = <<>>
    /\ alap_schedule = <<>>
    /\ pc = "asap_start"
    /\ clk = 0
    /\ done = <<>>
    /\ temp = <<>>
    /\ ready = <<>>
    /\ scheduling = <<>>
    /\ add = <<>>
    /\ mult = <<>>
    /\ priority = <<>>
    /\ num_op = 0

NextAsapTwice ==
    \/ AsapStart
    \/ AsapPass
    \/ AsapReturn
    \/ AsapAgain

SpecAsapTwice == InitAsapTwice /\ [][NextAsapTwice]_vars

-----------------------------------------------------------------------------
(* priority_function, utils.py lines 29-35. *)

\* priority_function without the "+ 1"
priority_functionNoPlusOne(asap, alap, n) == [p \in 1..n |-> alap[p] - asap[p]]

priority_function(asap, alap, n) == [p \in 1..n |-> alap[p] - asap[p] + 1]

-----------------------------------------------------------------------------
(* priority_scheduling, schedulers.py lines 190-294. *)

\* the operations held by a slot vector
Occupants(slots) == {slots[s] : s \in 1..Len(slots)} \ {-1}


\* ListIsReady without the case of two operands that are both operations
ListIsReadyNoBothCase(ops, rdy, i) ==
    LET index1 == Get(ops, i).index1
        index2 == Get(ops, i).index2
    IN  \/ index1 = -1 /\ index2 = -1
        \/ index1 # -1 /\ Get(rdy, index1) = 2 /\ index2 = -1
        \/ index2 # -1 /\ Get(rdy, index2) = 2 /\ index1 = -1

\* ListIsReady without its last case (op1 an input variable and op2 done)
ListIsReadyNoThirdCase(ops, rdy, i) ==
    LET index1 == Get(ops, i).index1
        index2 == Get(ops, i).index2
    IN  \/ index1 = -1 /\ index2 = -1
        \/ /\ index1 # -1
           /\ Get(rdy, index1) = 2
           /\ \/ index2 = -1
              \/ index2 # -1 /\ Get(rdy, index2) = 2

\* lines 215-233: whether a NOT_READY operation i becomes READY
ListIsReady(ops, rdy, i) ==
    LET index1 == Get(ops, i).index1
        index2 == Get(ops, i).index2
    IN  \/ index1 = -1 /\ index2 = -1
        \/ /\ index1 # -1
           /\ Get(rdy, index1) = 2
           /\ \/ index2 = -1
              \/ index2 # -1 /\ Get(rdy, index2) = 2
        \/ index2 # -1 /\ Get(rdy, index2) = 2 /\ index1 = -1

\* ReadyScan that accepts an operand as soon as it is READY (status >= 1)
\* instead of executed (status 2)
ReadyScanOperandReady(ops, rdy, t) ==
    LET seen == [p \in 1..Len(ops) |->
                    IF rdy[p] # 0 THEN rdy[p]
                    ELSE IF ListIsReady(ops, rdy, p - 1) THEN 2 ELSE 0]
    IN  [p \in 1..Len(ops) |->
            IF rdy[p] # 0 THEN t[p]
            ELSE IF ListIsReady(ops, seen, p - 1) THEN 1 ELSE t[p]]

\* lines 209-233: temp after the readiness loop
ReadyScan(ops, rdy, t) ==
    [p \in 1..Len(ops) |->
        IF rdy[p] # 0 THEN t[p]
        ELSE IF ListIsReady(ops, rdy, p - 1) THEN 1 ELSE t[p]]


\* SlotScan without the test 'j in add' / 'j in mult', so that an operation
\* already placed in a slot is considered again
RECURSIVE SlotScanNoSkip(_, _, _, _, _, _, _)
SlotScanNoSkip(ops, ty, rdy, prio, slots, i, j) ==
    IF j >= Len(ops) THEN slots
    ELSE IF Get(ops, j).type_op = ty /\ Get(rdy, j) = 1
         THEN IF Get(slots, i) = -1
              THEN SlotScanNoSkip(ops, ty, rdy, prio, [slots EXCEPT ![i + 1] = j], i, j + 1)
              ELSE IF Get(prio, Get(slots, i)) < Get(prio, j)
                   THEN SlotScanNoSkip(ops, ty, rdy, prio, [slots EXCEPT ![i + 1] = j], i, j + 1)
                   ELSE SlotScanNoSkip(ops, ty, rdy, prio, slots, i, j + 1)
         ELSE SlotScanNoSkip(ops, ty, rdy, prio, slots, i, j + 1)


\* SlotScan that only places operations whose priority is at least 1
RECURSIVE SlotScanPositivePriority(_, _, _, _, _, _, _)
SlotScanPositivePriority(ops, ty, rdy, prio, slots, i, j) ==
    IF j >= Len(ops) THEN slots
    ELSE IF Get(ops, j).type_op = ty /\ Get(rdy, j) = 1 /\ Get(prio, j) >= 1
         THEN IF j \in {slots[s] : s \in 1..Len(slots)}
              THEN SlotScanPositivePriority(ops, ty, rdy, prio, slots, i, j + 1)
              ELSE IF Get(slots, i) = -1
                   THEN SlotScanPositivePriority(ops, ty, rdy, prio, [slots EXCEPT ![i + 1] = j], i, j + 1)
                   ELSE IF Get(prio, Get(slots, i)) < Get(prio, j)
                        THEN SlotScanPositivePriority(ops, ty, rdy, prio, [slots EXCEPT ![i + 1] = j], i, j + 1)
                        ELSE SlotScanPositivePriority(ops, ty, rdy, prio, slots, i, j + 1)
         ELSE SlotScanPositivePriority(ops, ty, rdy, prio, slots, i, j + 1)

\* SlotScan that replaces the occupant on an equal priority too (<= for <)
RECURSIVE SlotScanOnTie(_, _, _, _, _, _, _)
SlotScanOnTie(ops, ty, rdy, prio, slots, i, j) ==
    IF j >= Len(ops) THEN slots
    ELSE IF Get(ops, j).type_op = ty /\ Get(rdy, j) = 1
         THEN IF j \in {slots[s] : s \in 1..Len(slots)}
              THEN SlotScanOnTie(ops, ty, rdy, prio, slots, i, j + 1)
              ELSE IF Get(slots, i) = -1
                   THEN SlotScanOnTie(ops, ty, rdy, prio, [slots EXCEPT ![i + 1] = j], i, j + 1)
                   ELSE IF Get(prio, Get(slots, i)) <= Get(prio, j)
                        THEN SlotScanOnTie(ops, ty, rdy, prio, [slots EXCEPT ![i + 1] = j], i, j + 1)
                        ELSE SlotScanOnTie(ops, ty, rdy, prio, slots, i, j + 1)
         ELSE SlotScanOnTie(ops, ty, rdy, prio, slots, i, j + 1)

\* lines 248-258 / 270-277: the slot vector after slot i has scanned the
\* operations j, j+1, ... of class ty
RECURSIVE SlotScan(_, _, _, _, _, _, _)
SlotScan(ops, ty, rdy, prio, slots, i, j) ==
    IF j >= Len(ops) THEN slots
    ELSE IF Get(ops, j).type_op = ty /\ Get(rdy, j) = 1
         THEN IF j \in {slots[s] : s \in 1..Len(slots)}
              THEN SlotScan(ops, ty, rdy, prio, slots, i, j + 1)
              ELSE IF Get(slots, i) = -1
                   THEN SlotScan(ops, ty, rdy, prio, [slots EXCEPT ![i + 1] = j], i, j + 1)
                   ELSE IF Get(prio, Get(slots, i)) < Get(prio, j)
                        THEN SlotScan(ops, ty, rdy, prio, [slots EXCEPT ![i + 1] = j], i, j + 1)
                        ELSE SlotScan(ops, ty, rdy, prio, slots, i, j + 1)
         ELSE SlotScan(ops, ty, rdy, prio, slots, i, j + 1)

\* lines 242-258 / 243-277: the slots i, i+1, ... filled in turn
RECURSIVE FillFrom(_, _, _, _, _, _)
FillFrom(ops, ty, rdy, prio, slots, i) ==
    IF i >= Len(slots) THEN slots
    ELSE FillFrom(ops, ty, rdy, prio, SlotScan(ops, ty, rdy, prio, slots, i, 0), i + 1)


\* FillSlots with one slot too few (range(n - 1))
FillSlotsOneLess(ops, ty, rdy, prio, n) == FillFrom(ops, ty, rdy, prio, Repeat(-1, n - 1), 0)


\* FillSlots that gives a class without units one slot
FillSlotsAtLeastOne(ops, ty, rdy, prio, n) ==
    FillFrom(ops, ty, rdy, prio, Repeat(-1, IF n < 1 THEN 1 ELSE n), 0)

\* FillSlots with one slot too many (range(n + 1))
FillSlotsOneMore(ops, ty, rdy, prio, n) == FillFrom(ops, ty, rdy, prio, Repeat(-1, n + 1), 0)

\* [-1] * n (empty when n <= 0), then the assignment loops
FillSlots(ops, ty, rdy, prio, n) == FillFrom(ops, ty, rdy, prio, Repeat(-1, n), 0)

\* lines 263-266 / 282-285: the occupants are marked executed (2) ...
CommitTemp(t, slots) == [p \in 1..Len(t) |-> IF (p - 1) \in Occupants(slots) THEN 2 ELSE t[p]]

\* CommitSched that also rewrites the cycle of the operations scheduled in
\* earlier cycles
CommitSchedAll(s, slots, c) ==
    [p \in 1..Len(s) |-> IF (p - 1) \in Occupants(slots) \/ s[p] # -1 THEN c ELSE s[p]]

\* ... and their cycle is recorded
CommitSched(s, slots, c) == [p \in 1..Len(s) |-> IF (p - 1) \in Occupants(slots) THEN c ELSE s[p]]


\* ListStart whose priority vector is not a new list but the ALAP argument
\* itself, overwritten in place
ListStartPriorityInPlace ==
    /\ pc = "list_start"
    /\ num_op' = Len(array_operations)
    /\ ready' = Repeat(0, Len(array_operations))
    /\ temp' = Repeat(0, Len(array_operations))
    /\ scheduling' = Repeat(-1, Len(array_operations))
    /\ add' = Repeat(-1, Len(array_operations))
    /\ mult' = Repeat(-1, Len(array_operations))
    /\ priority' = priority_function(asap_schedule, alap_schedule, Len(array_operations))
    /\ alap_schedule' = priority'
    /\ clk' = 1
    /\ pc' = "list_loop"
    /\ UNCHANGED <<file_lines, args, error, duplicate_name, result, first_asap,
                   array_operations, n_adder, n_mult, asap_schedule, done>>

\* lines 190-201
ListStart ==
    /\ pc = "list_start"
    /\ num_op' = Len(array_operations)
    /\ ready' = Repeat(0, Len(array_operations))
    /\ temp' = Repeat(0, Len(array_operations))
    /\ scheduling' = Repeat(-1, Len(array_operations))
    /\ add' = Repeat(-1, Len(array_operations))
    /\ mult' = Repeat(-1, Len(array_operations))
    /\ priority' = priority_function(asap_schedule, alap_schedule, Len(array_operations))
    /\ clk' = 1
    /\ pc' = "list_loop"
    /\ UNCHANGED <<file_lines, args, error, duplicate_name, result, first_asap,
                   array_operations, n_adder, n_mult, asap_schedule, alap_schedule, done>>

\* lines 208-235: the readiness recomputation of cycle clk.  Between two
\* cycles clk holds the next value of the loop variable, num_op + 1 once
\* range(1, num_op + 1) is exhausted.
ListReady ==
    /\ pc = "list_loop"
    /\ clk <= num_op
    /\ temp' = ReadyScan(array_operations, ready, temp)
    /\ ready' = temp'
    /\ pc' = "list_assign"
    /\ UNCHANGED <<file_lines, args, error, duplicate_name, result, first_asap,
                   array_operations, n_adder, n_mult, asap_schedule, alap_schedule, clk,
                   done, scheduling, add, mult, priority, num_op>>




\* ListAssign without the test 'all(x == 2 for x in ready)': the loop always
\* runs its num_op cycles
ListAssignNoBreak ==
    /\ pc = "list_assign"
    /\ LET a  == FillSlots(array_operations, "+", ready, priority, n_adder)
           t1 == CommitTemp(temp, a)
           s1 == CommitSched(scheduling, a, clk)
           m  == FillSlots(array_operations, "*", ready, priority, n_mult)
           t2 == CommitTemp(t1, m)
           s2 == CommitSched(s1, m, clk)
       IN  /\ add' = a
           /\ mult' = m
           /\ temp' = t2
           /\ scheduling' = s2
           /\ ready' = t2
           /\ pc' = "list_loop"
           /\ clk' = clk + 1
    /\ UNCHANGED <<file_lines, args, error, duplicate_name, result, first_asap,
                   array_operations, n_adder, n_mult, asap_schedule, alap_schedule,
                   done, priority, num_op>>

\* ListAssign whose slot vectors are created once, before the loop, so that
\* from cycle 2 on a slot still holds its occupant of the previous cycle
ListAssignSlotsKept ==
    /\ pc = "list_assign"
    /\ LET a  == FillFrom(array_operations, "+", ready, priority,
                          IF clk = 1 THEN Repeat(-1, n_adder) ELSE add, 0)
           t1 == CommitTemp(temp, a)
           s1 == CommitSched(scheduling, a, clk)
           m  == FillFrom(array_operations, "*", ready, priority,
                          IF clk = 1 THEN Repeat(-1, n_mult) ELSE mult, 0)
           t2 == CommitTemp(t1, m)
           s2 == CommitSched(s1, m, clk)
       IN  /\ add' = a
           /\ mult' = m
           /\ temp' = t2
           /\ scheduling' = s2
           /\ ready' = t2
           /\ IF \A p \in 1..Len(t2) : t2[p] = 2
              THEN /\ pc' = "list_break"
                   /\ clk' = clk
              ELSE /\ pc' = "list_loop"
                   /\ clk' = clk + 1
    /\ UNCHANGED <<file_lines, args, error, duplicate_name, result, first_asap,
                   array_operations, n_adder, n_mult, asap_schedule, alap_schedule,
                   done, priority, num_op>>

\* ListAssign that recomputes the readiness after the adders are committed,
\* before the multiplier slots are filled
ListAssignReadyBetween ==
    /\ pc = "list_assign"
    /\ LET a  == FillSlots(array_operations, "+", ready, priority, n_adder)
           t1 == CommitTemp(temp, a)
           s1 == CommitSched(scheduling, a, clk)
           r1 == ReadyScan(array_operations, t1, t1)
           m  == FillSlots(array_operations, "*", r1, priority, n_mult)
           t2 == CommitTemp(r1, m)
           s2 == CommitSched(s1, m, clk)
       IN  /\ add' = a
           /\ mult' = m
           /\ temp' = t2
           /\ scheduling' = s2
           /\ ready' = t2
           /\ IF \A p \in 1..Len(t2) : t2[p] = 2
              THEN /\ pc' = "list_break"
                   /\ clk' = clk
              ELSE /\ pc' = "list_loop"
                   /\ clk' = clk + 1
    /\ UNCHANGED <<file_lines, args, error, duplicate_name, result, first_asap,
                   array_operations, n_adder, n_mult, asap_schedule, alap_schedule,
                   done, priority, num_op>>

\* lines 241-292: the slots of cycle clk are filled and committed, adders
\* first, then ready is updated and the loop ends when every entry is 2
ListAssign ==
    /\ pc = "list_assign"
    /\ LET a  == FillSlots(array_operations, "+", ready, priority, n_adder)
           t1 == CommitTemp(temp, a)
           s1 == CommitSched(scheduling, a, clk)
           m  == FillSlots(array_operations, "*", ready, priority, n_mult)
           t2 == CommitTemp(t1, m)
           s2 == CommitSched(s1, m, clk)
       IN  /\ add' = a
           /\ mult' = m
           /\ temp' = t2
           /\ scheduling' = s2
           /\ ready' = t2
           /\ IF \A p \in 1..Len(t2) : t2[p] = 2
              THEN /\ pc' = "list_break"
                   /\ clk' = clk
              ELSE /\ pc' = "list_loop"
                   /\ clk' = clk + 1
    /\ UNCHANGED <<file_lines, args, error, duplicate_name, result, first_asap,
                   array_operations, n_adder, n_mult, asap_schedule, alap_schedule,
                   done, priority, num_op>>

\* line 294: return scheduling, after the break or after the last cycle
ListReturn ==
    /\ \/ pc = "list_break"
       \/ pc = "list_loop" /\ clk > num_op
    /\ pc' = "list_done"
    /\ UNCHANGED <<file_lines, args, error, duplicate_name, result, first_asap,
                   array_operations, n_adder, n_mult, asap_schedule, alap_schedule, clk,
                   done, temp, ready, scheduling, add, mult, priority, num_op>>

-----------------------------------------------------------------------------
(* priority_scheduling called on every acyclic operation sequence of at    *)
(* most MaxListOps operations, with the ASAP vector of the sequence and an  *)
(* ALAP argument that gives each operation a slack of 0 or 1, so that the   *)
(* priority vector ranges over every vector of the levels 1 and 2.          *)

AlapArguments(asap) ==
    {[p \in 1..Len(asap) |-> asap[p] + s[p]] : s \in [1..Len(asap) -> {0, 1}]}

InitListWith(capacities) ==
    /\ NoMain
    /\ array_operations \in UNION {AcyclicOps(n, TypeOps) : n \in 0..MaxListOps}
    /\ \E c \in capacities : n_adder = c[1] /\ n_mult = c[2]
    /\ asap_schedule = asap_scheduling(array_operations)
    /\ alap_schedule \in AlapArguments(asap_schedule)
    /\ pc = "list_start"
    /\ clk = 0
    /\ done = <<>>
    /\ temp = <<>>
    /\ ready = <<>>
    /\ scheduling = <<>>
    /\ add = <<>>
    /\ mult = <<>>
    /\ priority = <<>>
    /\ num_op = 0

NextList ==
    \/ ListStart
    \/ ListReady
    \/ ListAssign
    \/ ListReturn

\* both classes have at least one unit
InitList == InitListWith((1..MaxCap) \X (1..MaxCap))

SpecList == InitList /\ [][NextList]_vars

\* at least one class has no unit
InitListStarved == InitListWith({c \in (0..MaxCap) \X (0..MaxCap) : c[1] = 0 \/ c[2] = 0})

SpecListStarved == InitListStarved /\ [][NextList]_vars


-----------------------------------------------------------------------------
(* priority_scheduling called with vectors that are not the schedules of   *)
(* the sequence: the ASAP vector of the sequence with an ALAP argument     *)
(* that holds, for each operation, -1 or its ASAP cycle + 1 (priorities    *)
(* -ASAP and 2), and the pair ASAP = [0, ..., 0], ALAP = [-1, -2, ...]     *)
(* (priorities 0, -1, ...).                                                *)

AnyPriorityArguments(ops) ==
    LET n == Len(ops)
        a == asap_scheduling(ops)
    IN  {<<a, [p \in 1..n |-> IF s[p] = 0 THEN -1 ELSE a[p] + 1]>> : s \in [1..n -> {0, 1}]}
            \cup {<<Repeat(0, n), [p \in 1..n |-> 0 - p]>>}

InitListAnyPriority ==
    /\ NoMain
    /\ array_operations \in UNION {AcyclicOps(n, TypeOps) : n \in 0..MaxListOps}
    /\ \E c \in (1..MaxCap) \X (1..MaxCap) : n_adder = c[1] /\ n_mult = c[2]
    /\ \E v \in AnyPriorityArguments(array_operations) :
          asap_schedule = v[1] /\ alap_schedule = v[2]
    /\ pc = "list_start"
    /\ clk = 0
    /\ done = <<>>
    /\ temp = <<>>
    /\ ready = <<>>
    /\ scheduling = <<>>
    /\ add = <<>>
    /\ mult = <<>>
    /\ priority = <<>>
    /\ num_op = 0

SpecListAnyPriority == InitListAnyPriority /\ [][NextList]_vars


-----------------------------------------------------------------------------
(* alap_scheduling and priority_scheduling as functions of their           *)
(* arguments.                                                              *)

\* schedulers.py lines 139-154: the levels c, c - 1, ..., 1 of the sweep
RECURSIVE AlapLoop(_, _, _)
AlapLoop(ops, d, c) ==
    IF c < 1 THEN d ELSE AlapLoop(ops, AlapScan(ops, d, d, c, 0), c - 1)

\* lines 124-154, for a non-empty ASAP vector
alap_scheduling(ops, asap) ==
    LET clk_max == MaxOf(asap)
        pos == AlapAnchor(asap)
    IN  AlapLoop(ops, [Repeat(-1, Len(ops)) EXCEPT ![pos + 1] = clk_max], clk_max - 1)

\* lines 208-294: the cycles c, c + 1, ... of the loop
RECURSIVE ListLoop(_, _, _, _, _, _, _)
ListLoop(ops, prio, rdy, s, c, nm, na) ==
    IF c > Len(ops) THEN s
    ELSE LET r  == ReadyScan(ops, rdy, rdy)
             a  == FillSlots(ops, "+", r, prio, na)
             t1 == CommitTemp(r, a)
             s1 == CommitSched(s, a, c)
             m  == FillSlots(ops, "*", r, prio, nm)
             t2 == CommitTemp(t1, m)
             s2 == CommitSched(s1, m, c)
         IN  IF \A p \in 1..Len(t2) : t2[p] = 2 THEN s2
             ELSE ListLoop(ops, prio, t2, s2, c + 1, nm, na)

\* lines 190-294
priority_scheduling(ops, asap, alap, nm, na) ==
    ListLoop(ops, priority_function(asap, alap, Len(ops)),
             Repeat(0, Len(ops)), Repeat(-1, Len(ops)), 1, nm, na)

-----------------------------------------------------------------------------
(* priority_function called on its own, on two vectors of at most          *)
(* MaxVecLen entries, each -1 or a cycle in 1..MaxVecVal, and a num_op not *)
(* larger than either length; and on the vectors of its unit test.         *)

CycleVectors == UNION {[1..n -> {-1} \cup 1..MaxVecVal] : n \in 0..MaxVecLen}

InitPriority ==
    /\ NoMain
    /\ \/ /\ asap_schedule \in CycleVectors
          /\ alap_schedule \in CycleVectors
          /\ num_op \in 0..MaxVecLen
          /\ num_op <= Len(asap_schedule)
          /\ num_op <= Len(alap_schedule)
       \/ /\ asap_schedule = <<1, 1, 2, 3, 3, 4>>
          /\ alap_schedule = <<1, 2, 2, 3, 3, 4>>
          /\ num_op = 6
    /\ array_operations = <<>>
    /\ n_adder = 1
    /\ n_mult = 1
    /\ pc = "priority_call"
    /\ clk = 0
    /\ done = <<>>
    /\ temp = <<>>
    /\ ready = <<>>
    /\ scheduling = <<>>
    /\ add = <<>>
    /\ mult = <<>>
    /\ priority = <<>>

\* utils.py lines 29-35
PriorityCall ==
    /\ pc = "priority_call"
    /\ priority' = priority_function(asap_schedule, alap_schedule, num_op)
    /\ pc' = "priority_done"
    /\ UNCHANGED <<file_lines, args, error, duplicate_name, result, first_asap,
                   array_operations, n_adder, n_mult, asap_schedule, alap_schedule, clk,
                   done, temp, ready, scheduling, add, mult, num_op>>

NextPriority == PriorityCall

SpecPriority == InitPriority /\ [][NextPriority]_vars

-----------------------------------------------------------------------------
(* ScheduleOperation and extract_index, operation.py lines 11-43 and 80-109. *)

\* the operands of the form u<K> that the inputs use: UNames[K + 1] is "u<K>"
UNames == <<"u0", "u1", "u2", "u3", "u4", "u5", "u6", "u7", "u8">>

UName(k) == UNames[k + 1]

\* lines 102-109: the number K of an operand "u<K>", -1 for any other operand
extract_index(operand) ==
    IF \E k \in 1..Len(UNames) : UNames[k] = operand
    THEN (CHOOSE k \in 1..Len(UNames) : UNames[k] = operand) - 1
    ELSE -1

\* lines 33-43: the record built from the four tokens; '+' and '-' are
\* additions, every other operator is a multiplication
ScheduleOperation(name, type_op, input1, input2) ==
    [name |-> name,
     type_op |-> IF type_op \in {"+", "-"} THEN "+" ELSE "*",
     index1 |-> extract_index(input1),
     index2 |-> extract_index(input2)]

-----------------------------------------------------------------------------
(* process_file, parser.py lines 46-82 (the same text is in                *)
(* list_scheduling.py lines 130-170).  A line of the file is modelled by   *)
(* the list line.strip().split(" ") of its tokens; the empty line is the   *)
(* list of one empty token.                                                *)

\* the tokens of the inputs that start with '#' / with 'u'
HashTokens == {"#"}
UTokens == {UNames[k] : k \in 1..Len(UNames)}

\* line 54: a comment or a blank line is ignored
Skipped(parts) == parts[1] \in HashTokens \/ parts = <<"">>

\* lines 59-75: the exception raised for one line, NoError when the line
\* yields an operation.  Reading parts[k] of a shorter list raises IndexError,
\* whose message carries no line number.
LineError(parts, line_num) ==
    IF Len(parts) > 5
    THEN Raised("ValueError", "too many arguments", line_num, "")
    ELSE IF parts[1] \notin UTokens
    THEN Raised("ValueError", "must start with the letter 'u'", line_num, parts[1])
    ELSE IF Len(parts) < 2
    THEN Raised("IndexError", "list index out of range", 0, "")
    ELSE IF parts[2] # ":="
    THEN Raised("ValueError", "operation misspelled", line_num, "")
    ELSE IF Len(parts) < 4
    THEN Raised("IndexError", "list index out of range", 0, "")
    ELSE IF parts[4] \notin {"+", "-", "*", "/"}
    THEN Raised("ValueError", "operation allowed are only + - * /", line_num, "")
    ELSE IF Len(parts) < 5
    THEN Raised("IndexError", "list index out of range", 0, "")
    ELSE NoError

\* lines 49-77: the loop over the lines from line_num on, with the operations
\* collected so far; the result is the list and the exception, if any
RECURSIVE ProcessLines(_, _, _)
ProcessLines(lines, line_num, ops) ==
    IF line_num > Len(lines) THEN [ops |-> ops, error |-> NoError]
    ELSE LET parts == lines[line_num]
         IN  IF Skipped(parts) THEN ProcessLines(lines, line_num + 1, ops)
             ELSE IF LineError(parts, line_num) # NoError
                  THEN [ops |-> ops, error |-> LineError(parts, line_num)]
                  ELSE ProcessLines(lines, line_num + 1,
                           Append(ops, ScheduleOperation(parts[1], parts[4], parts[3], parts[5])))

process_file(lines) == ProcessLines(lines, 1, <<>>)

\* process_file called on the file
ProcessFileCall ==
    /\ pc = "parse_call"
    /\ LET r == process_file(file_lines)
       IN  IF r.error # NoError
           THEN /\ error' = r.error
                /\ pc' = "parse_raised"
                /\ UNCHANGED array_operations
           ELSE /\ array_operations' = r.ops
                /\ pc' = "parse_done"
                /\ UNCHANGED error
    /\ UNCHANGED <<file_lines, args, duplicate_name, result, first_asap,
                   n_adder, n_mult, asap_schedule, alap_schedule, clk, done, temp,
                   ready, scheduling, add, mult, priority, num_op>>

\* the tokens tried at position p of a line: the expected one and another
TokenChoices(p) ==
    CASE p = 1 -> {"u0", "x0"}
      [] p = 2 -> {":=", "="}
      [] p = 3 -> {"a", "u0"}
      [] p = 4 -> {"/", "%"}
      [] p = 5 -> {"b"}
      [] OTHER -> {"c"}

\* the lines of exactly k tokens
RECURSIVE ShapedLines(_)
ShapedLines(k) ==
    IF k = 0 THEN {<<>>}
    ELSE {Append(l, t) : l \in ShapedLines(k - 1), t \in TokenChoices(k)}

\* lines that process_file passes over or accepts
BlankLine == <<"">>
CommentLine == <<"#", "c">>
GoodLines == {BlankLine, CommentLine, <<"u1", ":=", "a", "+", "b">>}

\* the files of at most MaxFileLines lines whose last line is any line of at
\* most MaxTokens tokens and whose other lines are passed over or accepted
ParsedFiles ==
    {Append(pre, l) :
        pre \in UNION {[1..n -> GoodLines] : n \in 0..(MaxFileLines - 1)},
        l \in {BlankLine, CommentLine} \cup UNION {ShapedLines(k) : k \in 1..MaxTokens}}

InitParse ==
    /\ file_lines \in ParsedFiles
    /\ args = [nmult |-> 0, nadd |-> 0]
    /\ error = NoError
    /\ duplicate_name = <<>>
    /\ result = NotReturned
    /\ first_asap = <<>>
    /\ array_operations = <<>>
    /\ n_adder = 0
    /\ n_mult = 0
    /\ asap_schedule = <<>>
    /\ alap_schedule = <<>>
    /\ pc = "parse_call"
    /\ clk = 0
    /\ done = <<>>
    /\ temp = <<>>
    /\ ready = <<>>
    /\ scheduling = <<>>
    /\ add = <<>>
    /\ mult = <<>>
    /\ priority = <<>>
    /\ num_op = 0

NextParse == ProcessFileCall

SpecParse == InitParse /\ [][NextParse]_vars

-----------------------------------------------------------------------------
(* check_same_name, utils.py lines 55-60.  The returned False is modelled   *)
(* by the empty tuple and a returned name by the tuple of that name.        *)

\* check_same_name that returns the name whose second occurrence comes first
\* (outer loop over the later position j, inner loop over i < j)
RECURSIVE CheckFromFirstRepeat(_, _, _)
CheckFromFirstRepeat(objects, i, j) ==
    IF j >= Len(objects) THEN <<>>
    ELSE IF i >= j THEN CheckFromFirstRepeat(objects, 0, j + 1)
    ELSE IF Get(objects, i).name = Get(objects, j).name THEN <<Get(objects, i).name>>
    ELSE CheckFromFirstRepeat(objects, i + 1, j)

check_same_nameFirstRepeat(objects) == CheckFromFirstRepeat(objects, 0, 1)

\* lines 55-60: the two loops, standing at the Python indices i and j
RECURSIVE CheckFrom(_, _, _)
CheckFrom(objects, i, j) ==
    IF i >= Len(objects) THEN <<>>
    ELSE IF j >= Len(objects) THEN CheckFrom(objects, i + 1, i + 2)
    ELSE IF Get(objects, i).name = Get(objects, j).name THEN <<Get(objects, i).name>>
    ELSE CheckFrom(objects, i, j + 1)

check_same_name(objects) == CheckFrom(objects, 0, 1)

\* check_same_name called on the list
CheckSameNameCall ==
    /\ pc = "check_call"
    /\ duplicate_name' = check_same_name(array_operations)
    /\ pc' = "check_done"
    /\ UNCHANGED <<file_lines, args, error, result, first_asap,
                   array_operations, n_adder, n_mult, asap_schedule, alap_schedule, clk,
                   done, temp, ready, scheduling, add, mult, priority, num_op>>

\* the names given to the objects of a list handed to check_same_name
NameChoices == {"u0", "u1", "u2"}

\* check_same_name called on every list of at most MaxNames objects named
\* from NameChoices
InitNames ==
    /\ \E names \in UNION {[1..n -> NameChoices] : n \in 0..MaxNames} :
          array_operations = [p \in 1..Len(names) |->
                                 ScheduleOperation(names[p], "+", "a", "b")]
    /\ NoMain
    /\ n_adder = 0
    /\ n_mult = 0
    /\ asap_schedule = <<>>
    /\ alap_schedule = <<>>
    /\ pc = "check_call"
    /\ clk = 0
    /\ done = <<>>
    /\ temp = <<>>
    /\ ready = <<>>
    /\ scheduling = <<>>
    /\ add = <<>>
    /\ mult = <<>>
    /\ priority = <<>>
    /\ num_op = 0

NextNames == CheckSameNameCall

SpecNames == InitNames /\ [][NextNames]_vars

-----------------------------------------------------------------------------
(* main, list_scheduling.py lines 535-566, with the functions it calls.    *)

\* line 535: def main() declares no parameter; a call that passes one, as
\* __init__.py line 9 and the tests do, raises TypeError before the body runs
MainCallWithArgument ==
    /\ pc = "main_call"
    /\ error' = Raised("TypeError", "main() takes 0 positional arguments but 1 was given", 0, "")
    /\ pc' = "main_raised"
    /\ UNCHANGED <<file_lines, args, duplicate_name, result, first_asap,
                   array_operations, n_adder, n_mult, asap_schedule, alap_schedule, clk,
                   done, temp, ready, scheduling, add, mult, priority, num_op>>


\* the position of the record named u<k>, k itself when no record has that name
PositionOfName(ops, k) ==
    IF k = -1 THEN -1
    ELSE IF \E q \in 1..Len(ops) : ops[q].name = UName(k)
         THEN (CHOOSE q \in 1..Len(ops) :
                  ops[q].name = UName(k) /\ \A l \in 1..(q - 1) : ops[l].name # UName(k)) - 1
         ELSE k

\* MainParse that resolves an operand u<K> to the record named u<K> instead
\* of the K-th record
MainParseByName ==
    /\ pc = "main_call"
    /\ LET r == process_file(file_lines)
       IN  IF r.error # NoError
           THEN /\ error' = r.error
                /\ pc' = "main_raised"
                /\ UNCHANGED array_operations
           ELSE /\ array_operations' =
                      [p \in 1..Len(r.ops) |->
                          [r.ops[p] EXCEPT !.index1 = PositionOfName(r.ops, r.ops[p].index1),
                                           !.index2 = PositionOfName(r.ops, r.ops[p].index2)]]
                /\ pc' = "main_check"
                /\ UNCHANGED error
    /\ UNCHANGED <<file_lines, args, duplicate_name, result, first_asap,
                   n_adder, n_mult, asap_schedule, alap_schedule, clk, done, temp,
                   ready, scheduling, add, mult, priority, num_op>>

\* lines 539-541: a call without argument reads args and parses the file
MainParse ==
    /\ pc = "main_call"
    /\ LET r == process_file(file_lines)
       IN  IF r.error # NoError
           THEN /\ error' = r.error
                /\ pc' = "main_raised"
                /\ UNCHANGED array_operations
           ELSE /\ array_operations' = r.ops
                /\ pc' = "main_check"
                /\ UNCHANGED error
    /\ UNCHANGED <<file_lines, args, duplicate_name, result, first_asap,
                   n_adder, n_mult, asap_schedule, alap_schedule, clk, done, temp,
                   ready, scheduling, add, mult, priority, num_op>>

\* MainCheck that goes on to the ASAP phase whatever check_same_name returns
MainCheckNoRaise ==
    /\ pc = "main_check"
    /\ duplicate_name' = check_same_name(array_operations)
    /\ pc' = "asap_start"
    /\ UNCHANGED <<file_lines, args, error, result, first_asap,
                   array_operations, n_adder, n_mult, asap_schedule, alap_schedule, clk,
                   done, temp, ready, scheduling, add, mult, priority, num_op>>

\* lines 544-555: the duplicate check; a returned non-empty name is truthy
\* and raises, otherwise the operations are printed and asap_scheduling is
\* called
MainCheck ==
    /\ pc = "main_check"
    /\ LET name == check_same_name(array_operations)
       IN  /\ duplicate_name' = name
           /\ IF name # <<>> /\ name[1] # ""
              THEN /\ error' = Raised("ValueError", "has been found twice", 0, name[1])
                   /\ pc' = "main_raised"
              ELSE /\ error' = error
                   /\ pc' = "asap_start"
    /\ UNCHANGED <<file_lines, args, result, first_asap,
                   array_operations, n_adder, n_mult, asap_schedule, alap_schedule, clk,
                   done, temp, ready, scheduling, add, mult, priority, num_op>>

\* line 565: priority_scheduling(array_operations, asap_schedule,
\* alap_schedule, args.nmult, args.nadd), whose fourth parameter is n_mult
\* and whose fifth is n_adder
MainCallList ==
    /\ pc = "alap_done"
    /\ n_mult' = args.nmult
    /\ n_adder' = args.nadd
    /\ pc' = "list_start"
    /\ UNCHANGED <<file_lines, args, error, duplicate_name, result, first_asap,
                   array_operations, asap_schedule, alap_schedule, clk, done, temp,
                   ready, scheduling, add, mult, priority, num_op>>

\* line 566: the vector is printed and main ends without a return statement:
\* the call evaluates to None
MainReturn ==
    /\ pc = "list_done"
    /\ result' = Returned("None", <<>>)
    /\ pc' = "main_done"
    /\ UNCHANGED <<file_lines, args, error, duplicate_name, first_asap,
                   array_operations, n_adder, n_mult, asap_schedule, alap_schedule, clk,
                   done, temp, ready, scheduling, add, mult, priority, num_op>>

\* the operand naming the dependency k: an input variable for -1
OperandOf(k) == IF k = -1 THEN "a" ELSE UName(k)

\* the line "name := operand1 operator operand2" of an operation record
LineOf(name, op) == <<name, ":=", OperandOf(op.index1), op.type_op, OperandOf(op.index2)>>

\* the names of n lines: line p is named u<q> for some q < p, so that every
\* pattern of equal names occurs
LineNames(n) == {names \in [1..n -> UTokens] : \A p \in 1..n : names[p] \in {UName(q) : q \in 0..(p - 1)}}

\* the files of at most MaxListOps well-formed lines that describe an acyclic
\* operation sequence
MainFiles ==
    UNION {{[p \in 1..n |-> LineOf(names[p], ops[p])] :
               ops \in AcyclicOps(n, TypeOps), names \in LineNames(n)} : n \in 0..MaxListOps}

\* the nine operations of the unit tests (test_unit.py lines 17-27)
FileNineOps ==
    << <<"u0", ":=", "a", "+", "b">>,
       <<"u1", ":=", "c", "*", "d">>,
       <<"u2", ":=", "e", "*", "f">>,
       <<"u3", ":=", "g", "*", "h">>,
       <<"u4", ":=", "u0", "+", "u1">>,
       <<"u5", ":=", "u3", "+", "i">>,
       <<"u6", ":=", "u4", "*", "j">>,
       <<"u7", ":=", "u6", "*", "u2">>,
       <<"u8", ":=", "u7", "*", "u5">> >>

\* the file of the integration test (test_integration.py lines 14-17)
FileFourOps ==
    << <<"u0", ":=", "a", "+", "b">>,
       <<"u1", ":=", "c", "-", "d">>,
       <<"u2", ":=", "u1", "*", "e">>,
       <<"u3", ":=", "u2", "/", "u0">> >>

\* the file of the duplicate-name integration test (test_integration.py
\* lines 47-50)
FileDuplicate ==
    << <<"u0", ":=", "a", "+", "b">>,
       <<"u0", ":=", "c", "-", "d">>,
       <<"u2", ":=", "u0", "*", "e">>,
       <<"u3", ":=", "u2", "/", "u0">> >>

\* a file whose second line lacks its last operand
FileShortLine ==
    << <<"u0", ":=", "a", "+", "b">>,
       <<"u1", ":=", "u0", "*">> >>

\* main started on a file, with the capacities given on the command line
InitMain ==
    /\ \/ /\ file_lines \in MainFiles
          /\ args \in [nmult : 1..MaxCap, nadd : 1..MaxCap]
       \/ /\ file_lines \in {FileNineOps, FileFourOps, FileDuplicate, FileShortLine}
          /\ args = [nmult |-> 2, nadd |-> 2]
    /\ error = NoError
    /\ duplicate_name = <<>>
    /\ result = NotReturned
    /\ first_asap = <<>>
    /\ array_operations = <<>>
    /\ n_adder = 0
    /\ n_mult = 0
    /\ asap_schedule = <<>>
    /\ alap_schedule = <<>>
    /\ pc = "main_call"
    /\ clk = 0
    /\ done = <<>>
    /\ temp = <<>>
    /\ ready = <<>>
    /\ scheduling = <<>>
    /\ add = <<>>
    /\ mult = <<>>
    /\ priority = <<>>
    /\ num_op = 0

NextMain ==
    \/ MainCallWithArgument
    \/ MainParse
    \/ MainCheck
    \/ AsapStart
    \/ AsapPass
    \/ AsapReturn
    \/ AlapStart
    \/ AlapLevel
    \/ AlapReturn
    \/ MainCallList
    \/ ListStart
    \/ ListReady
    \/ ListAssign
    \/ ListReturn
    \/ MainReturn

SpecMain == InitMain /\ [][NextMain]_vars


-----------------------------------------------------------------------------
(* main on files whose operation names need not follow the positions: the  *)
(* lines of an acyclic sequence of at most MaxListOps operations are named *)
(* u0, u1, ... in order, or in reverse order, or u1, u2, ... (one ahead of *)
(* the position).                                                          *)

Namings(n) ==
    {[p \in 1..n |-> UName(p - 1)], [p \in 1..n |-> UName(n - p)], [p \in 1..n |-> UName(p)]}

NamedFiles ==
    UNION {{[p \in 1..n |-> LineOf(names[p], ops[p])] :
               ops \in AcyclicOps(n, TypeOps), names \in Namings(n)} : n \in 0..MaxListOps}

InitMainNamed ==
    /\ file_lines \in NamedFiles
    /\ args \in [nmult : 1..MaxCap, nadd : 1..MaxCap]
    /\ error = NoError
    /\ duplicate_name = <<>>
    /\ result = NotReturned
    /\ first_asap = <<>>
    /\ array_operations = <<>>
    /\ n_adder = 0
    /\ n_mult = 0
    /\ asap_schedule = <<>>
    /\ alap_schedule = <<>>
    /\ pc = "main_call"
    /\ clk = 0
    /\ done = <<>>
    /\ temp = <<>>
    /\ ready = <<>>
    /\ scheduling = <<>>
    /\ add = <<>>
    /\ mult = <<>>
    /\ priority = <<>>
    /\ num_op = 0

SpecMainNamed == InitMainNamed /\ [][NextMain]_vars

-----------------------------------------------------------------------------
(* Vocabulary of the properties. *)

OpIds == 0..(Len(array_operations) - 1)

\* the largest / smallest element of a non-empty set of integers
SetMax(S) == CHOOSE m \in S : \A x \in S : x <= m
SetMin(S) == CHOOSE m \in S : \A x \in S : m <= x

\* asap_scheduling has returned its vector
AsapReturned == pc \in {"alap_start", "alap_loop", "alap_done", "alap_error"}

\* alap_scheduling has returned its vector
AlapReturned == pc = "alap_done"

\* the operations that use d as an operand
Consumers(d) == {i \in OpIds : d \in Deps(array_operations, i)}

\* the operations backward-reachable from operation a through dependency edges
RECURSIVE BackReach(_)
BackReach(S) ==
    LET more == S \cup UNION {Deps(array_operations, i) : i \in S}
    IN  IF more = S THEN S ELSE BackReach(more)

\* Cmax and the anchor as the specification words them
Cmax == SetMax({asap_schedule[p] : p \in 1..Len(asap_schedule)})
Anchor == SetMin({i \in OpIds : Get(asap_schedule, i) = Cmax})
Reachable == BackReach({Anchor})

\* the number of edges of the longest dependency path from d to the anchor
RECURSIVE PathToAnchor(_)
PathToAnchor(d) ==
    IF d = Anchor THEN 0
    ELSE 1 + SetMax({PathToAnchor(c) : c \in Consumers(d) \cap Reachable})

-----------------------------------------------------------------------------
(* Properties of asap_scheduling. *)

\* C4: for an acyclic sequence, ASAP[i] is 1 when operation i has no internal
\* dependency and 1 + the largest ASAP of its internal dependencies otherwise.
C4_AsapRecurrence ==
    AsapReturned =>
        \A i \in OpIds :
            Get(asap_schedule, i) =
                IF Deps(array_operations, i) = {} THEN 1
                ELSE 1 + SetMax({Get(asap_schedule, d) : d \in Deps(array_operations, i)})

\* an operation with two dependencies of different ASAP cycles, one of them at
\* a later position, has been given its cycle
C4_Witness ==
    /\ AsapReturned
    /\ \E i \in OpIds :
          LET index1 == Get(array_operations, i).index1
              index2 == Get(array_operations, i).index2
          IN  /\ index1 # -1 /\ index2 # -1
              /\ index2 > i
              /\ Get(asap_schedule, index1) < Get(asap_schedule, index2)
              /\ Get(asap_schedule, i) = 3

\* C9: asap_scheduling returns N integers, each in 1..N, and every operation
\* has a larger cycle than each of its internal dependencies.
C9_AsapRangeAndOrder ==
    AsapReturned =>
        /\ Len(asap_schedule) = Len(array_operations)
        /\ \A i \in OpIds :
              /\ Get(asap_schedule, i) \in 1..Len(array_operations)
              /\ \A d \in Deps(array_operations, i) :
                    Get(asap_schedule, i) > Get(asap_schedule, d)

\* a chain of three operations, each depending on the one before it in the
\* sequence, has been given the cycles 1, 2, 3 = N
C9_Witness ==
    /\ AsapReturned
    /\ Len(array_operations) = 3
    /\ 0 \in Deps(array_operations, 1)
    /\ 1 \in Deps(array_operations, 2)
    /\ asap_schedule = <<1, 2, 3>>

\* the second call of asap_scheduling has returned
AsapReturnedTwice == pc = "alap_start" /\ first_asap # <<>>

\* the operation sequence with everything but the dependency indices erased
DependencyIndices(ops) ==
    [p \in 1..Len(ops) |-> [type_op |-> "+", index1 |-> ops[p].index1, index2 |-> ops[p].index2]]

AsapStopped == pc = "asap_break" \/ (pc = "asap_loop" /\ clk > num_op)

\* the number of passes the loop has begun when it has ended: the break
\* leaves clk one below the pass it interrupts
AsapPasses == IF pc = "asap_break" THEN clk + 1 ELSE num_op

\* the safety part of C27
AsapPassBound ==
    /\ pc = "asap_loop" =>
          /\ clk \in 1..(num_op + 1)
          /\ clk >= 2 => \E i \in OpIds : Get(done, i) = clk - 1
    /\ pc = "asap_break" =>
          /\ \A i \in OpIds : Get(temp, i) # clk + 1
          /\ clk >= 1 => \E i \in OpIds : Get(done, i) = clk
    /\ AsapStopped =>
          /\ AsapPasses <= num_op
          /\ Acyclic(array_operations) /\ num_op >= 1 =>
                /\ \A i \in OpIds : Get(done, i) # -1
                /\ AsapPasses <= MaxOf(done) + 1

\* C27: on every input, dependency cycles included, asap_scheduling returns;
\* its loop begins at most N passes; every pass before the last one assigned
\* at least one operation, and a loop ended by the break ended in the first
\* pass that assigned none; for an acyclic input the loop begins at most
\* min(N, max(ASAP) + 1) passes and every operation holds a cycle when it
\* ends.
C27_AsapTerminates == []AsapPassBound /\ <>AsapReturned

\* the first pass resolved one operation, the second pass assigned nothing
\* and ended the loop, and the operations of a dependency cycle are left
\* unresolved
C27_Witness ==
    /\ pc = "asap_break"
    /\ AsapPasses = 2
    /\ ~Acyclic(array_operations)
    /\ done = <<1, -1>>

-----------------------------------------------------------------------------
(* Properties of alap_scheduling. *)

\* C5: every operation d backward-reachable from the anchor gets
\* ALAP[d] = Cmax - (longest dependency path from d to the anchor), which for
\* d other than the anchor is one less than the smallest ALAP among its
\* reachable consumers.
C5_AlapLongestPath ==
    AlapReturned =>
        \A d \in Reachable :
            /\ Get(alap_schedule, d) = Cmax - PathToAnchor(d)
            /\ d # Anchor =>
                  Get(alap_schedule, d) =
                      SetMin({Get(alap_schedule, c) : c \in Consumers(d) \cap Reachable}) - 1

\* an operation consumed by two reachable operations that sit at different
\* ALAP levels
C5_Witness ==
    /\ AlapReturned
    /\ \E d \in Reachable : \E c1, c2 \in Consumers(d) \cap Reachable :
          Get(alap_schedule, c1) < Get(alap_schedule, c2)

\* C8: every operation backward-reachable from the anchor has a larger ALAP
\* cycle than each of its internal dependencies.
C8_AlapRespectsDeps ==
    AlapReturned =>
        \A i \in Reachable : \A d \in Deps(array_operations, i) :
            Get(alap_schedule, i) > Get(alap_schedule, d)

\* a reachable operation other than the anchor has an internal dependency and
\* both hold a cycle
C8_Witness ==
    /\ AlapReturned
    /\ \E i \in Reachable \ {Anchor} : \E d \in Deps(array_operations, i) :
          /\ Get(alap_schedule, d) >= 1
          /\ Get(alap_schedule, i) >= 2


\* C24: in the vector returned by alap_scheduling the lowest-index operation
\* whose ASAP cycle is Cmax holds Cmax, it is the only operation that holds
\* Cmax, every other operation whose ASAP cycle is Cmax holds -1, and no
\* entry is greater than Cmax.
C24_OneAnchor ==
    AlapReturned =>
        /\ Get(alap_schedule, Anchor) = Cmax
        /\ {i \in OpIds : Get(alap_schedule, i) = Cmax} = {Anchor}
        /\ \A i \in OpIds :
              /\ Get(alap_schedule, i) <= Cmax
              /\ i # Anchor /\ Get(asap_schedule, i) = Cmax => Get(alap_schedule, i) = -1

\* the first and the last of three operations share the largest ASAP cycle 2:
\* the first is the anchor and the last holds -1
C24_Witness ==
    /\ AlapReturned
    /\ asap_schedule = <<2, 1, 2>>
    /\ Anchor = 0
    /\ Get(alap_schedule, 0) = 2
    /\ Get(alap_schedule, 2) = -1

\* C25: in the vector returned by alap_scheduling an operation holds a cycle
\* in 1..Cmax exactly when it is backward-reachable from the anchor through
\* dependency edges, and every other operation holds -1.
C25_CycleIffReachable ==
    AlapReturned =>
        \A i \in OpIds :
            /\ Get(alap_schedule, i) \in 1..Cmax <=> i \in Reachable
            /\ i \notin Reachable => Get(alap_schedule, i) = -1

\* the anchor reaches one operation through its second operand only, and a
\* third operation that shares the largest ASAP cycle is not reached
C25_Witness ==
    /\ AlapReturned
    /\ Len(array_operations) = 3
    /\ \E d \in Reachable \ {Anchor} :
          /\ Get(array_operations, Anchor).index1 = -1
          /\ Get(array_operations, Anchor).index2 = d
          /\ Get(alap_schedule, d) = Cmax - 1
    /\ \E u \in OpIds \ Reachable :
          /\ Get(asap_schedule, u) = Cmax
          /\ Get(alap_schedule, u) = -1


\* C26: asap_scheduling does not return for an input with a dependency cycle
\* (a self-reference included), and alap_scheduling does not return when an
\* operation has no path to the anchor: the engine fails instead of returning
\* a vector that holds -1 for the affected operations.
C26_FailsOnStructuralViolation ==
    /\ AsapReturned => Acyclic(array_operations)
    /\ AlapReturned => OpIds \subseteq Reachable


\* C37: in the vector returned by asap_scheduling for an acyclic sequence, no
\* operation that holds the largest cycle is an operand of an operation of
\* the sequence; in particular the ALAP anchor, the first of them, is not.
C37_AnchorIsSink ==
    AsapReturned /\ Len(array_operations) >= 1 =>
        /\ Consumers(Anchor) = {}
        /\ \A i \in OpIds : Get(asap_schedule, i) = Cmax => Consumers(i) = {}

\* two operations hold the largest ASAP cycle 2, both consume the third
\* operation and nothing consumes them
C37_Witness ==
    /\ AsapReturned
    /\ Len(array_operations) = 3
    /\ Cmax = 2
    /\ \E i, j, d \in OpIds :
          /\ i # j
          /\ Get(asap_schedule, i) = 2
          /\ Get(asap_schedule, j) = 2
          /\ Consumers(d) = {i, j}
          /\ Consumers(i) = {}
          /\ Consumers(j) = {}

\* the priority vector that priority_scheduling derives from the two returned
\* vectors (schedulers.py line 201)
DerivedPriority == priority_function(asap_schedule, alap_schedule, Len(array_operations))

-----------------------------------------------------------------------------
(* Properties of priority_scheduling. *)

\* priority_scheduling has returned the vector 'scheduling'
ListReturned == pc = "list_done"

\* the operations of class ty
OfClass(ty) == {i \in OpIds : Get(array_operations, i).type_op = ty}

\* the capacity of class ty
Capacity(ty) == IF ty = "+" THEN n_adder ELSE n_mult

\* C1: with capacities >= 1, every operation is scheduled in a later cycle
\* than each of its internal dependencies, whatever the priorities are.
C1_FinalRespectsDeps ==
    ListReturned /\ n_adder >= 1 /\ n_mult >= 1 =>
        \A i \in OpIds : \A d \in Deps(array_operations, i) :
            Get(scheduling, i) > Get(scheduling, d)

\* an operation of the other class that precedes its dependency in the
\* sequence and has the higher priority is scheduled one cycle after it
C1_Witness ==
    /\ ListReturned
    /\ \E i \in OpIds : \E d \in Deps(array_operations, i) :
          /\ i < d
          /\ Get(array_operations, i).type_op # Get(array_operations, d).type_op
          /\ Get(priority, i) > Get(priority, d)
          /\ Get(scheduling, i) = Get(scheduling, d) + 1

\* C2: in the returned vector no cycle holds more operations of a class than
\* the class has units.
C2_FinalRespectsCaps ==
    ListReturned =>
        \A c \in {scheduling[p] : p \in 1..Len(scheduling)} \ {-1} : \A ty \in TypeOps :
            Cardinality({i \in OfClass(ty) : Get(scheduling, i) = c}) <= Capacity(ty)

\* two independent additions compete for the only adder and end in different
\* cycles, while two multiplications would have fitted in one
C2_Witness ==
    /\ ListReturned
    /\ n_adder = 1
    /\ n_mult = 2
    /\ OfClass("+") = {0, 1}
    /\ Deps(array_operations, 0) = {}
    /\ Deps(array_operations, 1) = {}
    /\ Get(scheduling, 0) # Get(scheduling, 1)

\* C3: with capacities >= 1 priority_scheduling terminates within N cycles
\* with every operation DONE: the cycle counter never passes N + 1 (one step
\* past the last cycle, where only the return is left); at the return the
\* loop has run at most N cycles, every status is 2 and every entry of the
\* vector is in 1..N.
C3_AllDoneWithinN ==
    n_adder >= 1 /\ n_mult >= 1 =>
        /\ clk <= Len(array_operations) + 1
        /\ pc = "list_assign" => clk <= Len(array_operations)
        /\ ListReturned =>
              /\ Len(scheduling) = Len(array_operations)
              /\ \A i \in OpIds :
                    /\ Get(ready, i) = 2
                    /\ Get(scheduling, i) \in 1..Len(array_operations)
              /\ Len(array_operations) >= 1 => clk <= Len(array_operations)

\* a run that needs all its N = 2 cycles: the second operation depends on the
\* first through its second operand only
C3_Witness ==
    /\ ListReturned
    /\ Len(array_operations) = 2
    /\ Get(array_operations, 1).index1 = -1
    /\ Get(array_operations, 1).index2 = 0
    /\ clk = 2
    /\ scheduling = <<1, 2>>

\* the slots of a cycle have been filled and committed
AfterAssign == pc = "list_break" \/ (pc = "list_loop" /\ clk >= 2)

\* the cycle whose slots were filled last
LastCycle == IF pc = "list_break" THEN clk ELSE clk - 1

\* the operations of class ty committed in the last cycle / left READY by it
Committed(ty) == {i \in OfClass(ty) : Get(scheduling, i) = LastCycle}
Waiting(ty) == {i \in OfClass(ty) : Get(ready, i) = 1}

\* s precedes w in the order priority descending, then index ascending
Before(s, w) ==
    \/ Get(priority, s) > Get(priority, w)
    \/ Get(priority, s) = Get(priority, w) /\ s < w

C20_StatusLifeCycle ==
    [][pc # "list_start" =>
          \A p \in 1..Len(array_operations) :
              /\ ready'[p] \in {0, 1, 2}
              /\ ready'[p] >= ready[p]
              /\ ready[p] = 2 => ready'[p] = 2
              /\ ready[p] # 2 /\ ready'[p] = 2 =>
                    /\ ready[p] = 1
                    /\ scheduling[p] = -1
                    /\ scheduling'[p] = clk
              /\ ready[p] = 2 \/ ready'[p] # 2 => scheduling'[p] = scheduling[p]
              /\ ready'[p] # 2 => scheduling'[p] = -1]_vars

\* an operation without dependencies was READY in cycle 1, where the only
\* unit of its class went to another operation, and became DONE in cycle 2
C20_Witness ==
    /\ ListReturned
    /\ \E i, j \in OpIds :
          /\ Deps(array_operations, i) = {}
          /\ Get(array_operations, i).type_op = Get(array_operations, j).type_op
          /\ Capacity(Get(array_operations, i).type_op) = 1
          /\ Get(scheduling, j) = 1
          /\ Get(scheduling, i) = 2
          /\ Get(ready, i) = 2


\* C21: in the readiness recomputation of a cycle a NOT_READY operation
\* becomes READY exactly when the cycle is 1 and it has no internal
\* dependency, or when every dependency has a final cycle and the cycle is
\* 1 + the largest of them; and in the slot assignment of a cycle an
\* operation with a dependency committed in that cycle, an ADD committed
\* before the MUL slots are filled included, is NOT_READY before and after
\* and receives no cycle.
C21_ReadyCycle ==
    [][/\ pc = "list_loop" /\ pc' = "list_assign" =>
             \A i \in OpIds :
                 LET deps == Deps(array_operations, i)
                 IN  Get(ready, i) = 0 =>
                         (Get(ready', i) = 1 <=>
                             /\ \A d \in deps : Get(scheduling, d) # -1
                             /\ clk = IF deps = {} THEN 1
                                      ELSE 1 + SetMax({Get(scheduling, d) : d \in deps}))
       /\ pc = "list_assign" =>
             \A i \in OpIds : \A d \in Deps(array_operations, i) :
                 Get(scheduling, d) = -1 /\ Get(scheduling', d) = clk =>
                     /\ Get(ready, i) = 0
                     /\ Get(ready', i) = 0
                     /\ Get(scheduling', i) = -1]_vars

\* a multiplication depends on an addition committed in cycle 1, no
\* multiplication took a multiplier in cycle 1, and the multiplication is
\* scheduled in cycle 2
C21_Witness ==
    /\ ListReturned
    /\ \E i \in OfClass("*") : \E d \in OfClass("+") :
          /\ d \in Deps(array_operations, i)
          /\ Get(scheduling, d) = 1
          /\ Get(scheduling, i) = 2
    /\ \A j \in OfClass("*") : Get(scheduling, j) # 1


\* C22: in the slot assignment of every cycle, for each class, the operations
\* that become DONE are READY operations of the class and their number is
\* min(capacity, number of READY operations of the class after the readiness
\* recomputation of the cycle); the class has 'capacity' slots again, and
\* when a READY operation of the class is left waiting no slot is empty.
C22_FullCapacityEachCycle ==
    [][pc = "list_assign" =>
          \A ty \in TypeOps :
              LET rdy   == {i \in OfClass(ty) : Get(ready, i) = 1}
                  com   == {i \in OfClass(ty) : Get(ready, i) # 2 /\ Get(ready', i) = 2}
                  slots == IF ty = "+" THEN add' ELSE mult'
              IN  /\ com \subseteq rdy
                  /\ Cardinality(com) =
                        IF Cardinality(rdy) < Capacity(ty) THEN Cardinality(rdy)
                        ELSE Capacity(ty)
                  /\ Len(slots) = Capacity(ty)
                  /\ rdy \ com # {} => \A s \in 1..Len(slots) : slots[s] # -1]_vars

\* the only adder, taken in cycle 1, is taken again in cycle 2 by the
\* addition that waited
C22_Witness ==
    /\ ListReturned
    /\ n_adder = 1
    /\ OfClass("+") = {0, 1}
    /\ scheduling = <<1, 2>>
    /\ Deps(array_operations, 1) = {}
    /\ add = <<1>>


\* C23: the slot vectors built by the slot assignment of a cycle hold
\* pairwise distinct operations in their occupied slots, and every occupant
\* of an adder (multiplier) slot is an ADD (MUL) operation that was READY
\* when the assignment began.
C23_SlotOccupants ==
    [][pc = "list_assign" =>
          /\ \A s, t \in 1..Len(add') : s # t /\ add'[s] # -1 => add'[s] # add'[t]
          /\ \A s, t \in 1..Len(mult') : s # t /\ mult'[s] # -1 => mult'[s] # mult'[t]
          /\ \A o \in Occupants(add') : o \in OfClass("+") /\ Get(ready, o) = 1
          /\ \A o \in Occupants(mult') : o \in OfClass("*") /\ Get(ready, o) = 1]_vars

\* an addition and a multiplication are committed in the same cycle, each
\* class having a second slot that stays empty
C23_Witness ==
    /\ AfterAssign
    /\ add = <<0, -1>>
    /\ mult = <<1, -1>>
    /\ Get(scheduling, 0) = LastCycle
    /\ Get(scheduling, 1) = LastCycle


\* C28: with capacities >= 1 a cycle begins only while some operation is not
\* DONE; the loop ends by the break, in a cycle that committed an operation
\* and left every operation DONE; and when priority_scheduling has returned
\* for N >= 1 operations, clk, the number of cycles executed, equals the
\* largest entry of the returned vector.
C28_StopsAtLastCommit ==
    /\ pc = "list_assign" \/ (pc = "list_loop" /\ clk >= 2) =>
          \E i \in OpIds : Get(ready, i) # 2
    /\ pc = "list_break" =>
          /\ \A i \in OpIds : Get(ready, i) = 2
          /\ \E i \in OpIds : Get(scheduling, i) = clk
    /\ ListReturned /\ Len(array_operations) >= 1 =>
          clk = SetMax({scheduling[p] : p \in 1..Len(scheduling)})

\* two operations are both committed in cycle 1 and the loop ends there,
\* although a second cycle was left in the range
C28_Witness ==
    /\ ListReturned
    /\ Len(array_operations) = 2
    /\ scheduling = <<1, 1>>
    /\ clk = 1


\* C30: with capacities >= 1, when priority_scheduling has returned for an
\* acyclic sequence and its ASAP vector, no operation is scheduled before its
\* ASAP cycle, and the largest final cycle is at least the largest ASAP cycle.
C30_FinalNotBeforeAsap ==
    ListReturned /\ n_adder >= 1 /\ n_mult >= 1 =>
        /\ \A i \in OpIds : Get(scheduling, i) >= Get(asap_schedule, i)
        /\ Len(array_operations) >= 1 =>
              SetMax({scheduling[p] : p \in 1..Len(scheduling)}) >= MaxOf(asap_schedule)

\* an operation that had to wait for the only unit of its class is scheduled
\* after its ASAP cycle, which makes the schedule longer than the ASAP one,
\* while the other operation sits at its ASAP cycle
C30_Witness ==
    /\ ListReturned
    /\ asap_schedule = asap_scheduling(array_operations)
    /\ \E i, j \in OpIds :
          /\ Get(scheduling, i) > Get(asap_schedule, i)
          /\ Get(scheduling, j) = Get(asap_schedule, j)
    /\ SetMax({scheduling[p] : p \in 1..Len(scheduling)}) > MaxOf(asap_schedule)


\* no class has fewer units than operations
Unconstrained ==
    /\ n_adder >= Cardinality(OfClass("+"))
    /\ n_mult >= Cardinality(OfClass("*"))

\* C31: when each class has at least as many units as operations, the vector
\* returned by priority_scheduling for an acyclic sequence equals the ASAP
\* vector of the sequence entry by entry, whatever the priority vector is.
C31_UnconstrainedIsAsap ==
    ListReturned /\ Unconstrained => scheduling = asap_schedule

\* two operations of one class with different priorities share cycle 1 on
\* two units
C31_Witness ==
    /\ ListReturned
    /\ Unconstrained
    /\ Len(array_operations) = 2
    /\ Get(array_operations, 0).type_op = Get(array_operations, 1).type_op
    /\ Get(priority, 0) < Get(priority, 1)
    /\ asap_schedule = <<1, 1>>
    /\ scheduling = <<1, 1>>


\* C32: with capacities >= 1, whatever the two vectors handed in are, the
\* vector returned by priority_scheduling for an acyclic sequence gives every
\* operation a cycle in 1..N, later than the cycle of each of its
\* dependencies, and no cycle holds more operations of a class than the class
\* has units.
C32_ValidWhateverPriority ==
    ListReturned /\ n_adder >= 1 /\ n_mult >= 1 =>
        /\ \A i \in OpIds :
              /\ Get(scheduling, i) \in 1..Len(array_operations)
              /\ \A d \in Deps(array_operations, i) : Get(scheduling, d) < Get(scheduling, i)
        /\ \A c \in 1..Len(array_operations) : \A ty \in TypeOps :
              Cardinality({i \in OfClass(ty) : Get(scheduling, i) = c}) <= Capacity(ty)

\* an operation whose ALAP entry is -1, hence of negative priority, lost the
\* only unit of its class to a later operation in cycle 1 and is scheduled in
\* cycle 2
C32_Witness ==
    /\ ListReturned
    /\ \E i, j \in OpIds :
          /\ i < j
          /\ Get(array_operations, i).type_op = Get(array_operations, j).type_op
          /\ Capacity(Get(array_operations, i).type_op) = 1
          /\ Get(alap_schedule, i) = -1
          /\ Get(priority, i) < 0
          /\ Get(priority, j) > 0
          /\ Get(scheduling, j) = 1
          /\ Get(scheduling, i) = 2


\* C34: with capacities >= 1 every cycle that priority_scheduling executes
\* commits at least one operation, and in the returned vector every cycle
\* from 1 to the largest entry is the cycle of at least one operation.
C34_NoIdleCycle ==
    n_adder >= 1 /\ n_mult >= 1 =>
        /\ AfterAssign => \E i \in OpIds : Get(scheduling, i) = LastCycle
        /\ ListReturned /\ Len(array_operations) >= 1 =>
              \A c \in 1..SetMax({scheduling[p] : p \in 1..Len(scheduling)}) :
                  \E i \in OpIds : Get(scheduling, i) = c

\* two cycles were executed, each committing one operation, the second
\* operation having both operands equal to the first operation
C34_Witness ==
    /\ ListReturned
    /\ Len(array_operations) = 2
    /\ Get(array_operations, 1).index1 = 0
    /\ Get(array_operations, 1).index2 = 0
    /\ scheduling = <<1, 2>>

\* a class without units has operations to schedule
StarvedDemand ==
    \/ n_adder <= 0 /\ OfClass("+") # {}
    \/ n_mult <= 0 /\ OfClass("*") # {}


\* the operations that can never be committed: those of a class without
\* units and those that depend on one of them, directly or not
RECURSIVE Dependents(_)
Dependents(S) ==
    LET more == S \cup {i \in OpIds : Deps(array_operations, i) \cap S # {}}
    IN  IF more = S THEN S ELSE Dependents(more)

Blocked == Dependents({i \in OpIds : Capacity(Get(array_operations, i).type_op) <= 0})

\* C33: when a class has no unit and operations of it exist, the loop of
\* priority_scheduling never ends by the break; it returns after exactly N
\* cycles and in the returned vector an operation holds -1 exactly when it is
\* of a class without units or depends, directly or not, on such an
\* operation; every other operation holds a cycle in 1..N, later than the
\* cycles of its dependencies, and no cycle holds more operations of a class
\* than the class has units.
C33_StarvedClassLeftUnscheduled ==
    StarvedDemand =>
        /\ pc # "list_break"
        /\ ListReturned =>
              /\ clk = Len(array_operations) + 1
              /\ \A i \in Blocked : Get(scheduling, i) = -1
              /\ \A i \in OpIds \ Blocked :
                    /\ Get(scheduling, i) \in 1..Len(array_operations)
                    /\ \A d \in Deps(array_operations, i) :
                          Get(scheduling, d) < Get(scheduling, i)
              /\ \A c \in 1..Len(array_operations) : \A ty \in TypeOps :
                    Cardinality({i \in OfClass(ty) : Get(scheduling, i) = c}) <= Capacity(ty)

\* there is no multiplier: the multiplication holds -1 and the addition,
\* which does not depend on it, is scheduled in cycle 1
C33_Witness ==
    /\ ListReturned
    /\ n_mult = 0
    /\ n_adder >= 1
    /\ Len(array_operations) = 2
    /\ Blocked = {0}
    /\ Get(array_operations, 1).type_op = "+"
    /\ scheduling = <<-1, 1>>
    /\ clk = 3

\* C7: when a class has no unit but operations of it exist,
\* priority_scheduling signals failure instead of returning a vector.
C7_SignalsFailure == StarvedDemand => ~ListReturned

-----------------------------------------------------------------------------
(* Properties of priority_function. *)

\* C10: priority_function returns exactly num_op integers with
\* priority[i] = alap[i] - asap[i] + 1, also when the vectors are longer than
\* num_op; on the vectors of the unit test it returns [1, 2, 1, 1, 1, 1].
C10_PriorityFormula ==
    pc = "priority_done" =>
        /\ Len(priority) = num_op
        /\ \A p \in 1..num_op : priority[p] = alap_schedule[p] - asap_schedule[p] + 1
        /\ asap_schedule = <<1, 1, 2, 3, 3, 4>> /\ alap_schedule = <<1, 2, 2, 3, 3, 4>>
              => priority = <<1, 2, 1, 1, 1, 1>>

\* the function has run on vectors longer than num_op, of different lengths
C10_Witness ==
    /\ pc = "priority_done"
    /\ num_op = 1
    /\ Len(asap_schedule) = 2
    /\ Len(alap_schedule) = 1
    /\ priority = <<2>>

-----------------------------------------------------------------------------
(* Properties of main and of the functions around the schedulers. *)

\* the positions of main at which asap_scheduling / alap_scheduling /
\* priority_function / priority_scheduling has returned its vector
ListPositions == {"list_loop", "list_assign", "list_break", "list_done", "main_done"}
AlapPositions == {"alap_start", "alap_loop", "alap_done", "alap_error"}
MainAsapReturned == pc \in AlapPositions \cup {"list_start"} \cup ListPositions
MainAlapReturned == pc \in {"alap_done", "list_start"} \cup ListPositions
MainPriorityReturned == pc \in ListPositions
MainListReturned == pc \in {"list_done", "main_done"}

\* C12: for every input of N operations, N = 0 included, the ASAP vector,
\* the ALAP vector, the priority vector and the final vector are all
\* produced (no phase ends in an exception) and each has length N.
C12_AllVectorsLengthN ==
    /\ pc # "alap_error"
    /\ MainAsapReturned => Len(asap_schedule) = Len(array_operations)
    /\ MainAlapReturned => Len(alap_schedule) = Len(array_operations)
    /\ MainPriorityReturned => Len(priority) = Len(array_operations)
    /\ MainListReturned => Len(scheduling) = Len(array_operations)

\* two objects of the list have the same name
HasDuplicate(objects) ==
    \E p, q \in 1..Len(objects) : p < q /\ objects[p].name = objects[q].name

NamesOf(objects) == [p \in 1..Len(objects) |-> objects[p].name]

\* the positions that have a later object of the same name
Repeated(objects) ==
    {p \in 1..Len(objects) : \E q \in (p + 1)..Len(objects) : objects[p].name = objects[q].name}

\* C14: check_same_name returns False exactly when the names are pairwise
\* distinct; otherwise it returns the name of the lowest-index object that
\* has a later object of the same name.
C14_CheckSameName ==
    pc = "check_done" =>
        /\ duplicate_name = <<>> <=> Repeated(array_operations) = {}
        /\ Repeated(array_operations) # {} =>
              duplicate_name = <<array_operations[SetMin(Repeated(array_operations))].name>>

\* the pair of equal names that is completed first (u0 at the Python indices
\* 1 and 2) is not the one reported: u1 at index 0 has a later duplicate
C14_Witness ==
    /\ pc = "check_done"
    /\ NamesOf(array_operations) = <<"u1", "u0", "u0", "u1">>
    /\ duplicate_name = <<"u1">>

\* C15: on the nine operations of the unit tests with two adders and two
\* multipliers, ASAP = [1,1,1,1,2,2,3,4,5], ALAP = [1,1,3,3,2,4,3,4,5] and
\* final = [1,2,1,1,3,2,4,5,6].
C15_NineOperations ==
    file_lines = FileNineOps /\ args = [nmult |-> 2, nadd |-> 2] =>
        /\ MainAsapReturned => asap_schedule = <<1, 1, 1, 1, 2, 2, 3, 4, 5>>
        /\ MainAlapReturned => alap_schedule = <<1, 1, 3, 3, 2, 4, 3, 4, 5>>
        /\ MainListReturned => scheduling = <<1, 2, 1, 1, 3, 2, 4, 5, 6>>

\* the list scheduler has returned on the nine operations after six cycles
\* with two units of each class
C15_Witness ==
    /\ pc = "list_done"
    /\ file_lines = FileNineOps
    /\ Len(array_operations) = 9
    /\ n_adder = 2
    /\ n_mult = 2
    /\ clk = 6

\* C16: on u0 := a + b, u1 := c - d, u2 := u1 * e, u3 := u2 / u0 with two
\* adders and two multipliers, ASAP = [1,1,2,3], ALAP = [2,1,2,3] and
\* final = [1,1,2,3].
C16_FourOperations ==
    file_lines = FileFourOps /\ args = [nmult |-> 2, nadd |-> 2] =>
        /\ MainAsapReturned => asap_schedule = <<1, 1, 2, 3>>
        /\ MainAlapReturned => alap_schedule = <<2, 1, 2, 3>>
        /\ MainListReturned => scheduling = <<1, 1, 2, 3>>

\* the list scheduler has returned on the four operations, the subtraction
\* and the division parsed as an addition and a multiplication
C16_Witness ==
    /\ pc = "list_done"
    /\ file_lines = FileFourOps
    /\ [p \in 1..4 |-> array_operations[p].type_op] = <<"+", "+", "*", "*">>
    /\ n_adder = 2
    /\ n_mult = 2
    /\ clk = 3

\* C17: main, given the parsed arguments, runs ASAP, then ALAP on that ASAP
\* vector, then the list scheduler on both vectors with args.nmult
\* multipliers and args.nadd adders, and returns the vector that
\* priority_scheduling produced.
C17_MainRunsPhasesAndReturns ==
    /\ error.exc # "TypeError"
    /\ pc \in AlapPositions =>
          /\ asap_schedule = asap_scheduling(array_operations)
          /\ scheduling = <<>>
    /\ pc \in ListPositions =>
          /\ asap_schedule = asap_scheduling(array_operations)
          /\ Len(alap_schedule) = Len(array_operations)
          /\ priority = priority_function(asap_schedule, alap_schedule, Len(array_operations))
          /\ n_mult = args.nmult
          /\ n_adder = args.nadd
    /\ pc = "main_done" => result = Returned("list", scheduling)

\* the numbers of the lines that are neither blank nor comments and do not
\* hold exactly five tokens
BadShapeLines ==
    {n \in 1..Len(file_lines) : ~Skipped(file_lines[n]) /\ Len(file_lines[n]) # 5}

\* C18: on a file with a non-blank, non-comment line of more or of fewer than
\* five tokens, process_file raises a ValueError that carries the number of
\* the offending line (the first such line, or an earlier line rejected for
\* another reason).
C18_ShapeErrorNamesLine ==
    pc # "parse_call" /\ BadShapeLines # {} =>
        /\ pc = "parse_raised"
        /\ error.exc = "ValueError"
        /\ error.line \in 1..SetMin(BadShapeLines)

\* C29: once the operation records are built no step changes them; no step
\* of alap_scheduling or of priority_scheduling changes the ASAP vector; no
\* step of priority_scheduling changes the ALAP vector or, after its
\* initialisation, the priority vector; and the final vector is not changed
\* after it is returned.
C29_PhasesKeepInputs ==
    [][/\ pc # "main_call" => array_operations' = array_operations
       /\ MainAsapReturned => asap_schedule' = asap_schedule
       /\ MainAlapReturned => alap_schedule' = alap_schedule
       /\ MainPriorityReturned => priority' = priority
       /\ MainListReturned => scheduling' = scheduling]_vars

\* all phases have run on nine operations; the three vectors differ from each
\* other and the ASAP vector is still the one of the operation records
C29_Witness ==
    /\ pc = "main_done"
    /\ Len(array_operations) = 9
    /\ asap_schedule = asap_scheduling(array_operations)
    /\ asap_schedule # alap_schedule
    /\ alap_schedule # scheduling
    /\ asap_schedule # scheduling
    /\ priority = priority_function(asap_schedule, alap_schedule, 9)

\* the file with line p renamed u<p-1>, the name of its position
PositionalNames(lines) == [p \in 1..Len(lines) |-> [lines[p] EXCEPT ![1] = UName(p - 1)]]

\* C35: whatever the lines of the file are named, an operand u<K> of a
\* record is resolved to the position K, and the ASAP, ALAP and final vectors
\* are those of the file whose lines carry the names of their positions: two
\* files that differ only in the names give the same three vectors.
C35_ResolvedByPosition ==
    LET exp == process_file(PositionalNames(file_lines)).ops
        ea  == asap_scheduling(exp)
        el  == alap_scheduling(exp, ea)
        ef  == priority_scheduling(exp, ea, el, args.nmult, args.nadd)
    IN  /\ pc \notin {"main_call", "main_raised"} =>
              /\ Len(array_operations) = Len(file_lines)
              /\ \A p \in 1..Len(file_lines) :
                    /\ array_operations[p].index1 = extract_index(file_lines[p][3])
                    /\ array_operations[p].index2 = extract_index(file_lines[p][5])
                    /\ array_operations[p].index1 = exp[p].index1
                    /\ array_operations[p].index2 = exp[p].index2
        /\ MainAsapReturned => asap_schedule = ea
        /\ MainAlapReturned => alap_schedule = el
        /\ MainListReturned => scheduling = ef

\* main has returned on a file of two lines named u1 and u0, in that order,
\* whose second line, named u0, uses the operand u0: the operand is the first
\* record, named u1, and the second operation is scheduled after it
C35_Witness ==
    /\ pc = "main_done"
    /\ Len(file_lines) = 2
    /\ file_lines[1][1] = "u1"
    /\ file_lines[2][1] = "u0"
    /\ file_lines[2][3] = "u0"
    /\ Get(array_operations, 1).index1 = 0
    /\ asap_schedule = <<1, 2>>
    /\ alap_schedule = <<1, 2>>
    /\ scheduling = <<1, 2>>

\* C36: when alap_scheduling has returned in a run of main on an acyclic
\* sequence, every operation backward-reachable from the anchor has
\* ASAP <= ALAP <= Cmax and a priority in 1..Cmax, and the anchor has
\* priority 1.
C36_ReachableWindow ==
    MainAlapReturned =>
        /\ \A i \in Reachable :
              /\ Get(asap_schedule, i) <= Get(alap_schedule, i)
              /\ Get(alap_schedule, i) <= Cmax
              /\ Get(DerivedPriority, i) \in 1..Cmax
        /\ Get(DerivedPriority, Anchor) = 1

\* an operation reachable from the anchor has ALAP cycle 2 and ASAP cycle 1,
\* hence priority 2, next to the anchor of priority 1
C36_Witness ==
    /\ MainAlapReturned
    /\ \E i \in Reachable :
          /\ Get(asap_schedule, i) = 1
          /\ Get(alap_schedule, i) = 2
          /\ Get(DerivedPriority, i) = 2
    /\ Get(DerivedPriority, Anchor) = 1
    /\ Cmax = 3

=============================================================================
